---- MODULE Spec2Model ----
(***************************************************************************)
(* Model of lightning-address-details-proxy: the two echo handlers         *)
(*   GET /lightning-address-details   and   GET /generate-invoice          *)
(* in both source variants of the repository:                              *)
(*   variant "main" is src/main.go,  variant "part" is src/unnamed/part_000*)
(* One behaviour is one request served by one handler of one variant.      *)
(*                                                                         *)
(* Strings (identifiers, URLs, query values) are sequences of tokens: a    *)
(* token is either one of the characters the code treats specially         *)
(* ("@", "?", "&", "=", ...) or an opaque run of ordinary characters.       *)
(***************************************************************************)
EXTENDS Integers, Sequences, FiniteSets, TLC

VARIABLES
  address,       \* ToUrl's argument, for the specification of ToUrl alone
  resolved,      \* what ToUrl returned for it (Unresolved before the call)
  bodies,        \* per fetch: the state of the response's Body stream
  variant,       \* "main" (src/main.go) or "part" (src/unnamed/part_000)
  route,         \* "details" or "invoice": the handler serving the request
  request,       \* c.Request().URL.RawQuery: the query string the caller sent
  query,         \* c.QueryParams(): echo's parsed copy of it (a url.Values)
  pc,            \* position of the handler
  gpc,           \* position of each fetch goroutine of the details handler
  urls,          \* lnurlpUrl, keysendUrl, nostrUrl (+ the invoice URL)
  wg,            \* sync.WaitGroup counter
  outcome,       \* per fetch: what http.Get produced (Pending before the call)
  value,         \* lnurlp, keysend, nostr, invoice  (decoded documents)
  response,      \* lnurlpResponse, keysendResponse, nostrResponse, invoiceResponse
  err,           \* the handler's err variable (shared by the goroutines)
  lnurlpError,   \* src/main.go only: the lnurlp goroutine's own error variable
  responseBody,  \* the LNResponse / GIResponse being filled in
  gets,          \* the URLs handed to http.Get so far
  resp           \* the HTTP response sent to the caller (status 0: none yet)

vars == <<address, resolved, bodies, variant, route, request, query, pc, gpc, urls, wg, outcome, value, response,
          err, lnurlpError, responseBody, gets, resp>>

----------------------------------------------------------------------------
(* Bounds and program constants *)

\* the largest number of values of the `ln` query parameter in a request
MaxLn == 2

\* the longest identifier, in tokens, that ToUrl is applied to on its own
MaxIdLen == 4

StatusOK == 200
StatusBadRequest == 400
StatusInternalServerError == 500
\* the status at which a response stops being a success
SuccessLimit == 300

Endpoints == {"lnurlp", "keysend", "nostr"}
Fetches == Endpoints \cup {"invoice"}

----------------------------------------------------------------------------
(* Strings as token sequences *)

\* position of the first occurrence of token sep in s, 0 when there is none
IndexOf(s, sep) ==
  IF \E i \in 1..Len(s) : s[i] = sep
  THEN CHOOSE i \in 1..Len(s) : s[i] = sep /\ \A j \in 1..(i - 1) : s[j] # sep
  ELSE 0

\* strings.Split(s, sep): always at least one part
RECURSIVE Split(_, _)
Split(s, sep) ==
  LET i == IndexOf(s, sep)
  IN  IF i = 0 THEN <<s>>
      ELSE <<SubSeq(s, 1, i - 1)>> \o Split(SubSeq(s, i + 1, Len(s)), sep)

\* strings.Cut(s, sep): the text before and after the first sep
CutBefore(s, sep) == IF IndexOf(s, sep) = 0 THEN s ELSE SubSeq(s, 1, IndexOf(s, sep) - 1)
CutAfter(s, sep) == IF IndexOf(s, sep) = 0 THEN <<>> ELSE SubSeq(s, IndexOf(s, sep) + 1, Len(s))

\* strings.Replace(s, old, new, 1) for a two-token old and new
ReplaceFirst(s, old, new) ==
  IF \E i \in 1..(Len(s) - 1) : SubSeq(s, i, i + 1) = old
  THEN LET i == CHOOSE i \in 1..(Len(s) - 1) :
                   /\ SubSeq(s, i, i + 1) = old
                   /\ \A j \in 1..(i - 1) : SubSeq(s, j, j + 1) # old
       IN  SubSeq(s, 1, i - 1) \o new \o SubSeq(s, i + 2, Len(s))
  ELSE s

\* Byte order of the tokens, for sort.Strings in Values.Encode.
TokenOrder ==
  <<"%26", "%3D", "%3F", "%40", "&", "1000", "2000", "=", "?", "@",
    "alice", "amount", "comment", "example.com", "hi", "ln", "x">>
TokenRank(t) ==
  IF \E i \in 1..Len(TokenOrder) : TokenOrder[i] = t
  THEN CHOOSE i \in 1..Len(TokenOrder) : TokenOrder[i] = t
  ELSE Len(TokenOrder) + 1
RECURSIVE StrLess(_, _)
StrLess(a, b) ==
  IF Len(b) = 0 THEN FALSE
  ELSE IF Len(a) = 0 THEN TRUE
  ELSE IF a[1] = b[1] THEN StrLess(Tail(a), Tail(b))
  ELSE TokenRank(a[1]) < TokenRank(b[1])

----------------------------------------------------------------------------
(* Values, errors, responses *)

\* Go's nil: an absent response, a nil error, a nil interface{} (also what
\* decoding the JSON text `null` yields).
Nil == [kind |-> "nil"]
\* the state of a fetch whose http.Get has not been called
Pending == [kind |-> "pending"]

IsNil(v) == v.kind = "nil"

\* *http.Response: its status code and the values of its Cache-Control header
Response(o) == [kind |-> "response", StatusCode |-> o.status, Header |-> o.cc]

\* Header.Get: the first value of the header, "" when there is none
HeaderGet(h) == IF Len(h) = 0 THEN "" ELSE h[1]

\* fmt.Errorf("no details: %s - %v", p.url, err) and fmt.Errorf("invalid JSON: %v", err)
Errorf(msg, url) == [kind |-> "error", msg |-> msg, url |-> url]

\* the value of a header that was never set
NoHeader == "<unset>"

----------------------------------------------------------------------------
(* ToUrl *)

\* fmt.Sprintf of the three well-known URL templates
ToUrl(identifier) ==
  LET parts == Split(identifier, "@")
  IN  IF Len(parts) # 2
      THEN [err |-> Errorf("invalid lightning address", identifier),
            lnurlp |-> <<>>, keysend |-> <<>>, nostr |-> <<>>]
      ELSE [err |-> Nil,
            lnurlp  |-> <<"https://">> \o parts[2] \o <<"/.well-known/lnurlp/">> \o parts[1],
            keysend |-> <<"https://">> \o parts[2] \o <<"/.well-known/keysend/">> \o parts[1],
            nostr   |-> <<"https://">> \o parts[2] \o <<"/.well-known/nostr.json">>
                        \o <<"?", "name", "=">> \o parts[1]]

\* ToUrl has not been called
Unresolved == [err |-> Pending, lnurlp |-> <<>>, keysend |-> <<>>, nostr |-> <<>>]

\* c.QueryParam(name): the first value of the parameter, "" when there is none
QueryParam(q, name) ==
  IF name \in DOMAIN q /\ Len(q[name]) > 0 THEN q[name][1] ELSE <<>>

----------------------------------------------------------------------------
(* GetJSON *)

\* The URL GetJSON hands to http.Get: src/unnamed/part_000 rewrites the first
\* "https://getalby.com" to the in-cluster host, src/main.go fetches p.url.
DispatchUrl(url) ==
  IF variant = "part"
  THEN ReplaceFirst(url, <<"https://", "getalby.com">>,
                         <<"http://", "alby-mainnet-getalbycom">>)
  ELSE url

\* http.Get refuses a URL it cannot parse (a control character in it)
Parseable(url) == \A i \in 1..Len(url) : url[i] # "<ctl>"

\* json.NewDecoder(response.Body).Decode(&j)
Decode(body) ==
  IF body.valid THEN [j |-> body.doc, err |-> Nil]
  ELSE [j |-> Nil, err |-> [kind |-> "error", msg |-> "syntax error", url |-> <<>>]]

\* the test that makes GetJSON give up on a response without reading its body
GetFailed(o) == o.kind = "transport" \/ o.status > SuccessLimit

\* The response's Body once GetJSON has returned: http.Get hands it over
\* open, and `defer response.Body.Close()` stands only in the branch that
\* decodes.
BodyAfterGetJSON(o) ==
  IF o.kind = "transport" THEN "none"
  ELSE IF GetFailed(o) THEN "open"
  ELSE "closed"

\* GetJSON's three return values for what http.Get produced
GetJSON(url, o) ==
  IF GetFailed(o)
  THEN [value |-> Nil,
        response |-> IF o.kind = "transport" THEN Nil ELSE Response(o),
        err |-> Errorf("no details", url)]
  ELSE IF ~IsNil(Decode(o.body).err)
       THEN [value |-> Nil, response |-> Response(o), err |-> Errorf("invalid JSON", <<>>)]
       ELSE [value |-> Decode(o.body).j, response |-> Response(o), err |-> Nil]

----------------------------------------------------------------------------
(* What the upstream servers may answer *)

Statuses == {200, 300, 404}

NoCallback == [kind |-> "absent", str |-> <<>>]
\* a JSON object; callback is the value of its "callback" field
Object(of, callback) == [kind |-> "object", of |-> of, callback |-> callback]

InvalidBody == [valid |-> FALSE, doc |-> Nil]
JSONBody(doc) == [valid |-> TRUE, doc |-> doc]

TransportFailure == [kind |-> "transport", status |-> 0, cc |-> <<>>, body |-> InvalidBody]
Answer(status, cc, body) == [kind |-> "response", status |-> status, cc |-> cc, body |-> body]

\* the Cache-Control header lines an endpoint may send: none, one or two
CacheControls(f) ==
  CASE f = "lnurlp"  -> {<<>>, <<"max-age=1">>, <<"max-age=1", "no-store">>}
    [] f = "keysend" -> {<<"max-age=2">>}
    [] f = "nostr"   -> {<<"max-age=3">>}
    [] OTHER         -> {<<"max-age=4">>}

\* the answers of a discovery endpoint to the details handler
DetailsOutcomes(e) ==
  {TransportFailure}
  \cup { Answer(s, cc, b) : s \in Statuses \ {404}, cc \in CacheControls(e),
                            b \in {InvalidBody, JSONBody(Object(e, NoCallback))} }
  \cup { Answer(404, cc, InvalidBody) : cc \in CacheControls(e) }

----------------------------------------------------------------------------
(* net/url: query strings and url.Values *)

\* url.QueryEscape, token by token: the reserved characters are escaped
EscapeToken(t) ==
  CASE t = "&" -> "%26"
    [] t = "=" -> "%3D"
    [] t = "?" -> "%3F"
    [] t = "@" -> "%40"
    [] OTHER   -> t
QueryEscape(s) == [i \in 1..Len(s) |-> EscapeToken(s[i])]

\* url.QueryUnescape, token by token; "%zz" is an escape it rejects
UnescapeToken(t) ==
  CASE t = "%26" -> "&"
    [] t = "%3D" -> "="
    [] t = "%3F" -> "?"
    [] t = "%40" -> "@"
    [] OTHER     -> t
UnescapeFails(s) == \E i \in 1..Len(s) : s[i] = "%zz"
QueryUnescape(s) == [i \in 1..Len(s) |-> UnescapeToken(s[i])]

NoValues == [k \in {} |-> <<>>]

\* Values.Add(key, value)
Add(v, key, val) ==
  IF key \in DOMAIN v
  THEN [v EXCEPT ![key] = Append(@, val)]
  ELSE [k \in DOMAIN v \cup {key} |-> IF k = key THEN <<val>> ELSE v[k]]

\* Values.Del(key): every value of the key goes
Del(v, key) == [k \in DOMAIN v \ {key} |-> v[k]]

\* url.ParseQuery over the "&"-separated pairs; a pair that does not unescape
\* is dropped (URL.Query discards the error)
RECURSIVE ParsePairs(_, _)
ParsePairs(pairs, acc) ==
  IF Len(pairs) = 0 THEN acc
  ELSE LET pair == Head(pairs)
           key == CutBefore(pair, "=")
           val == CutAfter(pair, "=")
       IN  IF Len(pair) = 0 \/ UnescapeFails(key) \/ UnescapeFails(val)
           THEN ParsePairs(Tail(pairs), acc)
           ELSE ParsePairs(Tail(pairs), Add(acc, QueryUnescape(key), QueryUnescape(val)))
ParseQuery(rawQuery) == ParsePairs(Split(rawQuery, "&"), NoValues)

\* Values.Encode: "key=value" pairs joined by "&", the keys sorted
RECURSIVE EncodePairs(_, _)
EncodePairs(key, vals) ==
  IF Len(vals) = 0 THEN <<>>
  ELSE QueryEscape(key) \o <<"=">> \o QueryEscape(Head(vals))
       \o (IF Len(vals) = 1 THEN <<>> ELSE <<"&">> \o EncodePairs(key, Tail(vals)))
RECURSIVE EncodeKeys(_, _)
EncodeKeys(v, keys) ==
  IF keys = {} THEN <<>>
  ELSE LET k == CHOOSE k \in keys : \A j \in keys \ {k} : StrLess(k, j)
           mine == EncodePairs(k, v[k])
           rest == EncodeKeys(v, keys \ {k})
       IN  IF Len(mine) = 0 THEN rest
           ELSE IF Len(rest) = 0 THEN mine
           ELSE mine \o <<"&">> \o rest
Encode(v) == EncodeKeys(v, DOMAIN v)

\* url.Parse: the text up to the first "?", and the query after it
UrlParseFails(s) == ~Parseable(s)
UrlParse(s) ==
  [base |-> CutBefore(s, "?"),
   RawQuery |-> CutAfter(s, "?"),
   ForceQuery |-> IndexOf(s, "?") = Len(s) /\ Len(s) > 0]

\* URL.String()
UrlString(u) ==
  u.base \o (IF u.ForceQuery \/ Len(u.RawQuery) > 0 THEN <<"?">> \o u.RawQuery ELSE <<>>)

----------------------------------------------------------------------------
(* The request *)

ValidIdentifier == <<"alice", "@", "example.com">>
Identifiers == {ValidIdentifier, <<"noatsign">>, <<"a", "@", "b", "@", "c">>}

\* the lists of `ln` values a request may carry
RECURSIVE LnLists(_)
LnLists(n) ==
  IF n = 0 THEN {<<>>}
  ELSE LnLists(n - 1) \cup { Append(l, i) : l \in { m \in LnLists(n - 1) : Len(m) = n - 1 },
                                            i \in Identifiers }

\* url.Values: the keys present, each with its list of values
Values(ln, amount, comment) ==
  [k \in { key \in {<<"ln">>, <<"amount">>, <<"comment">>} :
             \/ key = <<"ln">> /\ Len(ln) > 0
             \/ key = <<"amount">> /\ Len(amount) > 0
             \/ key = <<"comment">> /\ Len(comment) > 0 } |->
     CASE k = <<"ln">> -> ln [] k = <<"amount">> -> amount [] OTHER -> comment]

\* requests for /lightning-address-details: the handler reads only `ln`
DetailsQueries == { Values(ln, <<>>, <<>>) : ln \in LnLists(1) }

----------------------------------------------------------------------------
(* The handlers' common parts *)

NoResponse == [status |-> 0, cacheControl |-> NoHeader, body |-> Nil]

\* c.JSON / c.JSONPretty: the body is serialised as it is at the call
JSON(status, cacheControl, body) ==
  [status |-> status, cacheControl |-> cacheControl, body |-> body]

\* A panic in a handler: middleware.Recover hands it to echo's error handler,
\* which answers 500 {"message": "Internal Server Error"}.
Recovered ==
  [status |-> StatusInternalServerError, cacheControl |-> NoHeader,
   body |-> [kind |-> "error page", message |-> "Internal Server Error"]]

lnurlpResponse == response["lnurlp"]
keysendResponse == response["keysend"]
nostrResponse == response["nostr"]
invoiceResponse == response["invoice"]

\* responseBody := &LNResponse{}  (src/main.go has the Error field)
NewLNResponse ==
  IF variant = "main"
  THEN [Lnurlp |-> Nil, Keysend |-> Nil, Nostr |-> Nil,
        Error |-> [Status |-> 0, Message |-> Nil]]
  ELSE [Lnurlp |-> Nil, Keysend |-> Nil, Nostr |-> Nil]

\* responseBody := &GIResponse{}
NewGIResponse == [Invoice |-> Nil]

SetSlot(rb, e, v) ==
  CASE e = "lnurlp"  -> [rb EXCEPT !.Lnurlp = v]
    [] e = "keysend" -> [rb EXCEPT !.Keysend = v]
    [] e = "nostr"   -> [rb EXCEPT !.Nostr = v]

Slot(rb, e) ==
  CASE e = "lnurlp"  -> rb.Lnurlp
    [] e = "keysend" -> rb.Keysend
    [] e = "nostr"   -> rb.Nostr

----------------------------------------------------------------------------
(* GET /lightning-address-details *)

\* ln := c.QueryParam("ln"); ToUrl(ln); wg.Add(3); three go statements
DetailsStart ==
  /\ route = "details" /\ pc = "start"
  /\ LET u == ToUrl(QueryParam(query, <<"ln">>))
     IN  IF ~IsNil(u.err)
         THEN /\ err' = u.err
              /\ resp' = JSON(StatusBadRequest, NoHeader, responseBody)
              /\ pc' = "done"
              /\ UNCHANGED <<urls, wg, gpc>>
         ELSE /\ err' = Nil
              /\ urls' = [urls EXCEPT !["lnurlp"] = u.lnurlp,
                                      !["keysend"] = u.keysend,
                                      !["nostr"] = u.nostr]
              /\ wg' = wg + 3
              /\ gpc' = [e \in Endpoints |-> "start"]
              /\ pc' = "wait"
              /\ UNCHANGED resp
  /\ UNCHANGED <<address, resolved, bodies, variant, route, request,
                 query, outcome, value, response, lnurlpError,
                 responseBody, gets>>

\* A goroutine enters GetJSON and calls http.Get.
GetJSONCall(e) ==
  /\ gpc[e] = "start"
  /\ gets' = gets \cup {DispatchUrl(urls[e])}
  /\ gpc' = [gpc EXCEPT ![e] = "get"]
  /\ UNCHANGED <<address, resolved, bodies, variant, route, request,
                 query, pc, urls, wg, outcome, value, response,
                 err, lnurlpError, responseBody, resp>>

\* a Done that leaves the counter as it was
Done_Skipped(n) == n

\* defer p.wg.Done(): the counter less one
Done(n) == n - 1

\* http.Get returns, GetJSON decodes and returns: the deferred p.wg.Done()
\* runs now, before the caller has stored what GetJSON returned.
GetJSONReturn(e) ==
  /\ gpc[e] = "get"
  /\ \E o \in DetailsOutcomes(e) :
       /\ Parseable(urls[e]) \/ o.kind = "transport"
       /\ outcome' = [outcome EXCEPT ![e] = o]
       /\ bodies' = [bodies EXCEPT ![e] = BodyAfterGetJSON(o)]
  /\ wg' = Done(wg)
  /\ gpc' = [gpc EXCEPT ![e] = "returned"]
  /\ UNCHANGED <<address, resolved, variant, route, request,
                 query, pc, urls, value, response, err,
                 lnurlpError, responseBody, gets, resp>>

\* the error variable a goroutine assigns and tests: src/main.go gave the
\* lnurlp goroutine its own, every other goroutine uses the handler's err
OwnErrorVariable(e) == variant = "main" /\ e = "lnurlp"

\* the name of that variable, and what it holds now
ErrorVariable(e) == IF OwnErrorVariable(e) THEN "lnurlpError" ELSE "err"

ErrorValue(e) == IF ErrorVariable(e) = "lnurlpError" THEN lnurlpError ELSE err

\* the variables the goroutine of an endpoint has assigned so far: the three
\* targets of the assignment from GetJSON, then its field of responseBody
\* (which the else branch assigns)
WrittenBy(e) ==
  (IF gpc[e] \in {"assigned", "test", "done"}
   THEN {<<"document", e>>, <<"response", e>>} ELSE {})
  \cup (IF gpc[e] \in {"test", "done"} THEN {<<ErrorVariable(e)>>} ELSE {})
  \cup (IF gpc[e] = "done" THEN {<<"responseBody", e>>} ELSE {})

\* lnurlp, lnurlpResponse, ... = GetJSON(...): the first two assignments
AssignResponse(e) ==
  /\ gpc[e] = "returned"
  /\ value' = [value EXCEPT ![e] = GetJSON(urls[e], outcome[e]).value]
  /\ response' = [response EXCEPT ![e] = GetJSON(urls[e], outcome[e]).response]
  /\ gpc' = [gpc EXCEPT ![e] = "assigned"]
  /\ UNCHANGED <<address, resolved, bodies, variant, route, request,
                 query, pc, urls, wg, outcome, err, lnurlpError,
                 responseBody, gets, resp>>

\* ..., err = GetJSON(...): the third assignment
AssignError(e) ==
  /\ gpc[e] = "assigned"
  /\ IF ErrorVariable(e) = "lnurlpError"
     THEN lnurlpError' = GetJSON(urls[e], outcome[e]).err /\ UNCHANGED err
     ELSE err' = GetJSON(urls[e], outcome[e]).err /\ UNCHANGED lnurlpError
  /\ gpc' = [gpc EXCEPT ![e] = "test"]
  /\ UNCHANGED <<address, resolved, bodies, variant, route, request,
                 query, pc, urls, wg, outcome, value, response,
                 responseBody, gets, resp>>

\* if err != nil { log } else { responseBody.X = x }
\* The error tested is whatever the variable holds now.
StoreResult(e) ==
  /\ gpc[e] = "test"
  /\ IF IsNil(ErrorValue(e))
     THEN responseBody' = SetSlot(responseBody, e, value[e])
     ELSE UNCHANGED responseBody
  /\ gpc' = [gpc EXCEPT ![e] = "done"]
  /\ UNCHANGED <<address, resolved, bodies, variant, route, request,
                 query, pc, urls, wg, outcome, value, response,
                 err, lnurlpError, gets, resp>>

\* wg.Wait() returning after the first Done
WaitReturns_AfterAnyDone == wg < 3

\* wg.Wait() blocks until the counter is zero
WaitReturns == wg = 0

\* wg.Wait()
DetailsWait ==
  /\ route = "details" /\ pc = "wait"
  /\ WaitReturns
  /\ pc' = "check"
  /\ UNCHANGED <<address, resolved, bodies, variant, route, request,
                 query, gpc, urls, wg, outcome, value, response,
                 err, lnurlpError, responseBody, gets, resp>>

\* The condition of the handler's `if`, evaluated left to right with Go's
\* short circuit; reading StatusCode through a nil response panics.
AllFailedOf(l, k, n) ==
  IF IsNil(l) /\ IsNil(k) /\ IsNil(n) THEN "true"
  ELSE IF IsNil(l) THEN "panic"
  ELSE IF l.StatusCode < SuccessLimit THEN "false"
  ELSE IF IsNil(k) THEN "panic"
  ELSE IF k.StatusCode < SuccessLimit THEN "false"
  ELSE IF IsNil(n) THEN "panic"
  ELSE IF n.StatusCode < SuccessLimit THEN "false"
  ELSE "true"

\* the condition over the three response variables as they are now
AllFailed == AllFailedOf(lnurlpResponse, keysendResponse, nostrResponse)

DetailsCheck ==
  /\ route = "details" /\ pc = "check"
  /\ \/ AllFailed = "true" /\ pc' = "fail" /\ UNCHANGED resp
     \/ AllFailed = "false" /\ pc' = "ok" /\ UNCHANGED resp
     \/ AllFailed = "panic" /\ pc' = "done" /\ resp' = Recovered
  /\ UNCHANGED <<address, resolved, bodies, variant, route, request,
                 query, gpc, urls, wg, outcome, value, response,
                 err, lnurlpError, responseBody, gets>>

\* src/main.go: responseBody.Error = ErrorResponse{lnurlpResponse.StatusCode,
\* lnurlpError.Error()}; a nil lnurlpResponse or a nil lnurlpError panics.
\* src/unnamed/part_000 has no such statement.
FailurePanics ==
  variant = "main" /\ (IsNil(lnurlpResponse) \/ IsNil(lnurlpError))

FailureDetail ==
  IF variant = "main"
  THEN [responseBody EXCEPT !.Error = [Status |-> lnurlpResponse.StatusCode,
                                       Message |-> lnurlpError]]
  ELSE responseBody

\* return c.JSON(http.StatusBadRequest, &responseBody)
DetailsFail ==
  /\ route = "details" /\ pc = "fail"
  /\ IF FailurePanics
     THEN resp' = Recovered /\ UNCHANGED responseBody
     ELSE /\ responseBody' = FailureDetail
          /\ resp' = JSON(StatusBadRequest, NoHeader, FailureDetail)
  /\ pc' = "done"
  /\ UNCHANGED <<address, resolved, bodies, variant, route, request,
                 query, gpc, urls, wg, outcome, value, response,
                 err, lnurlpError, gets>>

\* the header read from the keysend response instead
ForwardedCacheControl_FromKeysend ==
  IF IsNil(keysendResponse) THEN "panic" ELSE HeaderGet(keysendResponse.Header)

\* lnurlpResponse.Header.Get("Cache-Control")
ForwardedCacheControl ==
  IF IsNil(lnurlpResponse) THEN "panic" ELSE HeaderGet(lnurlpResponse.Header)

\* c.Response().Header().Set(...); return c.JSONPretty(http.StatusOK, &responseBody, "  ")
DetailsOk ==
  /\ route = "details" /\ pc = "ok"
  /\ IF ForwardedCacheControl = "panic"
     THEN resp' = Recovered
     ELSE resp' = JSON(StatusOK, ForwardedCacheControl, responseBody)
  /\ pc' = "done"
  /\ UNCHANGED <<address, resolved, bodies, variant, route, request,
                 query, gpc, urls, wg, outcome, value, response,
                 err, lnurlpError, responseBody, gets>>

----------------------------------------------------------------------------
(* GET /generate-invoice *)

\* the callback URLs an lnurlp document may name
Callbacks ==
  { <<"https://", "pay.example", "/cb">>,
    <<"https://", "pay.example", "/cb", "?", "amount", "=", "1000">>,
    <<"https://", "pay.example", "/cb", "?", "ln", "=", "x">>,
    <<"https://", "getalby.com", "/cb">>,
    <<"https://", "pay.example", "<ctl>">> }

\* the values of the "callback" field of an lnurlp document
CallbackFields ==
  { [kind |-> "string", str |-> cb] : cb \in Callbacks }
  \cup { NoCallback, [kind |-> "null", str |-> <<>>], [kind |-> "number", str |-> <<>>] }

\* the bodies the lnurlp endpoint may send: malformed, an object, null, an array
LnurlpBodies ==
  {InvalidBody, JSONBody(Nil), JSONBody([kind |-> "array"])}
  \cup { JSONBody(Object("lnurlp", cb)) : cb \in CallbackFields }

LnurlpOutcomes ==
  {TransportFailure, Answer(404, <<"max-age=1">>, InvalidBody)}
  \cup { Answer(s, <<"max-age=1">>, b) : s \in Statuses \ {404}, b \in LnurlpBodies }

InvoiceOutcomes ==
  {TransportFailure, Answer(404, <<"max-age=4">>, InvalidBody)}
  \cup { Answer(s, <<"max-age=4">>, b) :
           s \in Statuses \ {404},
           b \in {InvalidBody, JSONBody(Object("invoice", NoCallback))} }

\* requests for /generate-invoice: `ln` values and LNURL-pay parameters, one
\* of them a comment that spells "x&ln=x"
InvoiceQueries ==
  { Values(ln, amount, comment) :
      ln \in LnLists(MaxLn),
      amount \in {<<>>, << <<"2000">> >>},
      comment \in {<<>>, << <<"hi">> >>, << <<"x", "&", "ln", "=", "x">> >>} }

\* ln := c.QueryParam("ln"); lnurlpUrl, _, _, err := ToUrl(ln)
InvoiceStart ==
  /\ route = "invoice" /\ pc = "start"
  /\ LET u == ToUrl(QueryParam(query, <<"ln">>))
     IN  /\ err' = u.err
         /\ IF ~IsNil(u.err)
            THEN /\ resp' = JSON(StatusBadRequest, NoHeader, responseBody)
                 /\ pc' = "done"
                 /\ UNCHANGED urls
            ELSE /\ urls' = [urls EXCEPT !["lnurlp"] = u.lnurlp]
                 /\ pc' = "lnurlp"
                 /\ UNCHANGED resp
  /\ UNCHANGED <<address, resolved, bodies, variant, route, request,
                 query, gpc, wg, outcome, value, response,
                 lnurlpError, responseBody, gets>>

\* lnurlp.(map[string]interface{}): panics unless the document is an object
IsObject(doc) == doc.kind = "object"

\* callback := ...["callback"]: nil when the field is missing or null
CallbackIsNil(doc) == doc.callback.kind \in {"absent", "null"}

\* callback.(string): panics unless the field is a string
IsString(cb) == cb.kind = "string"

\* the Del("ln") left out
InvoiceParams_LnKept(q) == q

\* c.QueryParams().Del("ln"): what the caller sent, less the identifier
InvoiceParams(q) == Del(q, <<"ln">>)

\* values := invoiceUrl.Query(); values.Add(key, v) for every value of every
\* caller parameter
RECURSIVE AddAll(_, _, _)
AddAll(v, key, vals) ==
  IF Len(vals) = 0 THEN v ELSE AddAll(Add(v, key, Head(vals)), key, Tail(vals))
RECURSIVE Merge(_, _, _)
Merge(v, params, keys) ==
  IF keys = {} THEN v
  ELSE LET k == CHOOSE k \in keys : TRUE
       IN  Merge(AddAll(v, k, params[k]), params, keys \ {k})

\* The URL of the invoice fetch.
\* src/main.go:          callback.(string) + "?" + invoiceParams (encoded)
\* src/unnamed/part_000: the callback parsed, the caller's values added to
\*                       its own query, the query encoded again
InvoiceUrl(callback, params) ==
  IF variant = "main"
  THEN callback \o <<"?">> \o Encode(params)
  ELSE UrlString([UrlParse(callback) EXCEPT
         !.RawQuery = Encode(Merge(ParseQuery(UrlParse(callback).RawQuery),
                                   params, DOMAIN params))])

\* the status reported when the invoice fetch answered above the success range
InvoiceFailureStatus == lnurlpResponse.StatusCode

\* The first fetch and everything up to the second: GetJSON(lnurlpUrl), the
\* two checks of lnurlpResponse, the callback, the invoice URL.
InvoiceLnurlp ==
  /\ route = "invoice" /\ pc = "lnurlp"
  /\ gets' = gets \cup {DispatchUrl(urls["lnurlp"])}
  /\ \E o \in LnurlpOutcomes :
       LET r == GetJSON(urls["lnurlp"], o)
       IN
       /\ Parseable(urls["lnurlp"]) \/ o.kind = "transport"
       /\ outcome' = [outcome EXCEPT !["lnurlp"] = o]
       /\ bodies' = [bodies EXCEPT !["lnurlp"] = BodyAfterGetJSON(o)]
       /\ value' = [value EXCEPT !["lnurlp"] = r.value]
       /\ response' = [response EXCEPT !["lnurlp"] = r.response]
       /\ err' = r.err
       /\ IF IsNil(r.response)
          THEN /\ resp' = JSON(StatusBadRequest, NoHeader, responseBody)
               /\ pc' = "done"
               /\ UNCHANGED <<query, urls>>
          ELSE IF r.response.StatusCode > SuccessLimit
          THEN /\ resp' = JSON(r.response.StatusCode, NoHeader, responseBody)
               /\ pc' = "done"
               /\ UNCHANGED <<query, urls>>
          ELSE IF ~IsObject(r.value)
          THEN /\ resp' = Recovered
               /\ pc' = "done"
               /\ UNCHANGED <<query, urls>>
          ELSE IF CallbackIsNil(r.value)
          THEN /\ resp' = JSON(StatusBadRequest, NoHeader, responseBody)
               /\ pc' = "done"
               /\ UNCHANGED <<query, urls>>
          ELSE /\ query' = InvoiceParams(query)
               /\ IF ~IsString(r.value.callback)
                  THEN /\ resp' = Recovered
                       /\ pc' = "done"
                       /\ UNCHANGED urls
                  ELSE IF variant = "part" /\ UrlParseFails(r.value.callback.str)
                  THEN /\ resp' = JSON(StatusBadRequest, NoHeader, responseBody)
                       /\ pc' = "done"
                       /\ UNCHANGED urls
                  ELSE /\ urls' = [urls EXCEPT !["invoice"] =
                                     InvoiceUrl(r.value.callback.str, InvoiceParams(query))]
                       /\ pc' = "invoice"
                       /\ UNCHANGED resp
  /\ UNCHANGED <<address, resolved, variant, route, request,
                 gpc, wg, lnurlpError,
                 responseBody>>

\* The second fetch: GetJSON(invoice URL), responseBody.Invoice, the two
\* checks of invoiceResponse, the response.
InvoiceCallback ==
  /\ route = "invoice" /\ pc = "invoice"
  /\ gets' = gets \cup {DispatchUrl(urls["invoice"])}
  /\ \E o \in InvoiceOutcomes :
       LET r == GetJSON(urls["invoice"], o)
           body == IF IsNil(r.err) THEN [responseBody EXCEPT !.Invoice = r.value]
                   ELSE responseBody
       IN
       /\ Parseable(urls["invoice"]) \/ o.kind = "transport"
       /\ outcome' = [outcome EXCEPT !["invoice"] = o]
       /\ bodies' = [bodies EXCEPT !["invoice"] = BodyAfterGetJSON(o)]
       /\ value' = [value EXCEPT !["invoice"] = r.value]
       /\ response' = [response EXCEPT !["invoice"] = r.response]
       /\ err' = r.err
       /\ responseBody' = body
       /\ IF IsNil(r.response)
          THEN resp' = JSON(StatusBadRequest, NoHeader, body)
          ELSE IF r.response.StatusCode > SuccessLimit
          THEN resp' = JSON(InvoiceFailureStatus, NoHeader, body)
          ELSE resp' = JSON(StatusOK, NoHeader, body)
  /\ pc' = "done"
  /\ UNCHANGED <<address, resolved, variant, route, request,
                 query, gpc, urls, wg,
                 lnurlpError>>

----------------------------------------------------------------------------
(* The specification *)

Init ==
  /\ address = <<>>
  /\ resolved = Unresolved
  /\ bodies = [f \in Fetches |-> "none"]
  /\ variant \in {"main", "part"}
  /\ route \in {"details", "invoice"}
  /\ request \in { Encode(v) : v \in IF route = "details" THEN DetailsQueries
                                                            ELSE InvoiceQueries }
  /\ query = ParseQuery(request)
  /\ pc = "start"
  /\ gpc = [e \in Endpoints |-> "idle"]
  /\ urls = [f \in Fetches |-> <<>>]
  /\ wg = 0
  /\ outcome = [f \in Fetches |-> Pending]
  /\ value = [f \in Fetches |-> Nil]
  /\ response = [f \in Fetches |-> Nil]
  /\ err = Nil
  /\ lnurlpError = Nil
  /\ responseBody = IF route = "details" THEN NewLNResponse ELSE NewGIResponse
  /\ gets = {}
  /\ resp = NoResponse

Next ==
  \/ DetailsStart
  \/ \E e \in Endpoints : GetJSONCall(e)
  \/ \E e \in Endpoints : GetJSONReturn(e)
  \/ \E e \in Endpoints : AssignResponse(e)
  \/ \E e \in Endpoints : AssignError(e)
  \/ \E e \in Endpoints : StoreResult(e)
  \/ DetailsWait
  \/ DetailsCheck
  \/ DetailsFail
  \/ DetailsOk
  \/ InvoiceStart
  \/ InvoiceLnurlp
  \/ InvoiceCallback

Spec == Init /\ [][Next]_vars

\* the steps of the handler's own goroutine, and of the goroutine it spawns
\* for an endpoint
Handler ==
  \/ DetailsStart \/ DetailsWait \/ DetailsCheck \/ DetailsFail \/ DetailsOk
  \/ InvoiceStart \/ InvoiceLnurlp \/ InvoiceCallback

Goroutine(e) ==
  \/ GetJSONCall(e) \/ GetJSONReturn(e)
  \/ AssignResponse(e) \/ AssignError(e) \/ StoreResult(e)

\* The Go scheduler lets every runnable goroutine run; that http.Get returns
\* (GetJSONReturn stays enabled until it is taken) is the assumption under
\* which progress is claimed.
FairSpec ==
  /\ Init /\ [][Next]_vars
  /\ WF_vars(Handler)
  /\ \A e \in Endpoints : WF_vars(Goroutine(e))

----------------------------------------------------------------------------
(* ToUrl on its own: every identifier over a small alphabet *)

\* the identifiers ToUrl is applied to: every string of at most MaxIdLen
\* tokens over a name, a host and the separator
IdTokens == {"a", "b", "@"}

IdsOfLen(n) == [1..n -> IdTokens]

ToUrlInputs == UNION { IdsOfLen(n) : n \in 0..MaxIdLen }

InitToUrl ==
  /\ address \in ToUrlInputs
  /\ resolved = Unresolved
  /\ bodies = [f \in Fetches |-> "none"]
  /\ variant \in {"main", "part"}
  /\ route = "details"
  /\ request = <<>>
  /\ query = NoValues
  /\ pc = "done"
  /\ gpc = [e \in Endpoints |-> "idle"]
  /\ urls = [f \in Fetches |-> <<>>]
  /\ wg = 0
  /\ outcome = [f \in Fetches |-> Pending]
  /\ value = [f \in Fetches |-> Nil]
  /\ response = [f \in Fetches |-> Nil]
  /\ err = Nil
  /\ lnurlpError = Nil
  /\ responseBody = NewLNResponse
  /\ gets = {}
  /\ resp = NoResponse

\* lnurlp, keysend, nostr, err := ToUrl(ln)
ToUrlCall ==
  /\ resolved = Unresolved
  /\ resolved' = ToUrl(address)
  /\ UNCHANGED <<address, bodies, variant, route, request, query, pc, gpc, urls, wg,
                 outcome, value, response, err, lnurlpError, responseBody, gets, resp>>

NextToUrl == ToUrlCall

SpecToUrl == InitToUrl /\ [][NextToUrl]_vars

----------------------------------------------------------------------------
(* Vocabulary of the properties *)

\* the outcome the specification calls Ok: a response below 300 that decodes
Ok(o) == o.kind = "response" /\ o.status < SuccessLimit /\ o.body.valid

\* the handler of the details route has answered a request whose identifier
\* resolved, so all three fetches have returned
DetailsAnswered ==
  route = "details" /\ pc = "done" /\ \A e \in Endpoints : outcome[e] # Pending

\* the response is the handler's own JSON body, not the recovered panic's
OwnBody == resp.status # 0 /\ resp # Recovered

\* the query the callback server sees in a URL
ServerQuery(url) == ParseQuery(CutAfter(url, "?"))

\* the invoice URL has been built from a callback string
Forwarding == route = "invoice" /\ Len(urls["invoice"]) > 0
CallbackString == value["lnurlp"].callback.str

\* every element of sequence a occurs in sequence b
Within(a, b) == \A i \in 1..Len(a) : \E j \in 1..Len(b) : b[j] = a[i]

----------------------------------------------------------------------------
(* Properties *)

\* C1: once /lightning-address-details has answered a request with a valid
\* identifier, the status is 200 if at least one of the three fetch outcomes
\* is Ok and 400 if all three are failures.
C1_StatusByOutcomes ==
  DetailsAnswered =>
    resp.status = IF \E e \in Endpoints : Ok(outcome[e])
                  THEN StatusOK ELSE StatusBadRequest

\* C2: in the body /lightning-address-details returns, each slot holds its own
\* endpoint's decoded document exactly when that endpoint's outcome is Ok and
\* is absent otherwise, whatever the interleaving of the goroutines.
C2_SlotsByOutcomes ==
  (DetailsAnswered /\ OwnBody) =>
    \A e \in Endpoints :
      Slot(resp.body, e) = IF Ok(outcome[e]) THEN outcome[e].body.doc ELSE Nil

\* C3: if the lnurlp fetch produced no response and the keysend or the nostr
\* fetch is Ok, the details handler answers 200 and sets no Cache-Control.
C3_LnurlpAbsentStillSucceeds ==
  (/\ DetailsAnswered
   /\ outcome["lnurlp"].kind = "transport"
   /\ (Ok(outcome["keysend"]) \/ Ok(outcome["nostr"])))
  => (resp.status = StatusOK /\ resp.cacheControl = NoHeader)

\* C4: both handlers always answer with their own JSON body and status: no
\* request ends in a runtime fault answered by the recovery middleware.
C4_NoRuntimeFault == pc = "done" => resp # Recovered

\* C5: on every 200 of /lightning-address-details for which the lnurlp fetch
\* produced a response, whatever its status, the Cache-Control of the answer
\* is the lnurlp response's Cache-Control value (the first one when lnurlp
\* sent several, empty when it sent none), never keysend's or nostr's.
C5_CacheControlFromLnurlp ==
  (route = "details" /\ resp.status = StatusOK /\ outcome["lnurlp"].kind = "response")
  => /\ Len(outcome["lnurlp"].cc) > 0 => resp.cacheControl = outcome["lnurlp"].cc[1]
     /\ Len(outcome["lnurlp"].cc) = 0 => resp.cacheControl = ""
     /\ resp.cacheControl \notin {outcome["keysend"].cc[i] : i \in 1..Len(outcome["keysend"].cc)}
     /\ resp.cacheControl \notin {outcome["nostr"].cc[i] : i \in 1..Len(outcome["nostr"].cc)}

\* C5 witness: a 200 although lnurlp answered 404, carrying lnurlp's header.
C5_Witness ==
  /\ route = "details" /\ resp.status = StatusOK
  /\ outcome["lnurlp"].kind = "response" /\ outcome["lnurlp"].status = 404
  /\ Ok(outcome["keysend"])
  /\ resp.cacheControl = "max-age=1"

\* C6: in /generate-invoice, when the invoice fetch fails, the status answered
\* is the invoice response's own status when it has one (>= 300), and 400
\* when the invoice fetch produced no response.
C6_InvoiceFailureStatus ==
  (route = "invoice" /\ pc = "done" /\ outcome["invoice"] # Pending) =>
    /\ outcome["invoice"].kind = "transport" => resp.status = StatusBadRequest
    /\ (outcome["invoice"].kind = "response" /\ outcome["invoice"].status >= SuccessLimit)
         => resp.status = outcome["invoice"].status

\* C7: in /generate-invoice, if the lnurlp fetch fails (no response, status >=
\* 300, undecodable body) or its document is not a JSON object, the answer is
\* a client error with an absent invoice and no second fetch is made.
C7_LnurlpFailureIsClientError ==
  (/\ route = "invoice" /\ pc = "done" /\ outcome["lnurlp"] # Pending
   /\ (~Ok(outcome["lnurlp"]) \/ ~IsObject(outcome["lnurlp"].body.doc)))
  => /\ resp.status \in 400..499
     /\ resp.body = NewGIResponse
     /\ outcome["invoice"] = Pending
     /\ Cardinality(gets) = 1

\* C8: in /generate-invoice, if the decoded lnurlp document has no callback
\* field or one that is not a string, the answer is 400 with an absent
\* invoice and no fetch of a callback URL.
C8_MissingCallbackIs400 ==
  (/\ route = "invoice" /\ pc = "done" /\ outcome["lnurlp"] # Pending
   /\ IsNil(GetJSON(urls["lnurlp"], outcome["lnurlp"]).err)
   /\ IsObject(outcome["lnurlp"].body.doc)
   /\ ~IsString(outcome["lnurlp"].body.doc.callback))
  => /\ resp.status = StatusBadRequest
     /\ resp.body = NewGIResponse
     /\ outcome["invoice"] = Pending
     /\ Cardinality(gets) = 1

\* C9: the URL fetched for the invoice carries every parameter of the callback
\* URL's own query with its values, and every value the caller supplied (the
\* identifier aside), in both source variants.
C9_QueryMerged ==
  Forwarding =>
    LET own == ServerQuery(CallbackString)
        sent == ServerQuery(urls["invoice"])
    IN  /\ \A k \in DOMAIN own : k \in DOMAIN sent /\ Within(own[k], sent[k])
        /\ \A k \in DOMAIN query : k \in DOMAIN sent /\ Within(query[k], sent[k])

\* C10 as stated: the URL forwarded to the callback never has a parameter
\* named ln.
C10_NeverLn == Forwarding => <<"ln">> \notin DOMAIN ServerQuery(urls["invoice"])

\* C10 as amended: no ln value of the caller is forwarded; the forwarded URL
\* has a parameter named ln only when the callback URL's own query has one.
C10_NoCallerLn ==
  Forwarding =>
    (<<"ln">> \in DOMAIN ServerQuery(urls["invoice"])
       => <<"ln">> \in DOMAIN ServerQuery(CallbackString))

\* C10 witness: a request with several ln values and a comment spelling
\* "x&ln=x" is forwarded, with its comment, without any ln.
C10_Witness ==
  /\ Forwarding
  /\ <<"comment">> \in DOMAIN ServerQuery(urls["invoice"])
  /\ ServerQuery(urls["invoice"])[<<"comment">>] = << <<"x", "&", "ln", "=", "x">> >>
  /\ <<"ln">> \notin DOMAIN ServerQuery(urls["invoice"])
  /\ Len(ParseQuery(request)[<<"ln">>]) = 2
  /\ outcome["invoice"] # Pending

----------------------------------------------------------------------------
(* C11: ToUrl and the reference resolver *)

\* the reference resolver: the two parts around the one separator
AtSigns(id) == { i \in 1..Len(id) : id[i] = "@" }

RefUser(id) == SubSeq(id, 1, (CHOOSE i \in AtSigns(id) : TRUE) - 1)

RefDomain(id) == SubSeq(id, (CHOOSE i \in AtSigns(id) : TRUE) + 1, Len(id))

\* it accepts exactly the identifiers whose split on the separator yields
\* exactly two parts, neither of them empty
RefAccepts(id) ==
  /\ Cardinality(AtSigns(id)) = 1
  /\ RefUser(id) # <<>>
  /\ RefDomain(id) # <<>>

\* C11: on every identifier over the bounded alphabet ToUrl agrees with the
\* reference resolver: it fails exactly when the split on the separator does
\* not yield exactly two non-empty parts, and otherwise returns the three
\* URLs built from the templates.
C11_ToUrlAgreesWithReference ==
  resolved # Unresolved =>
    /\ IsNil(resolved.err) <=> RefAccepts(address)
    /\ RefAccepts(address) =>
         /\ resolved.lnurlp = <<"https://">> \o RefDomain(address)
                                \o <<"/.well-known/lnurlp/">> \o RefUser(address)
         /\ resolved.keysend = <<"https://">> \o RefDomain(address)
                                 \o <<"/.well-known/keysend/">> \o RefUser(address)
         /\ resolved.nostr = <<"https://">> \o RefDomain(address)
                               \o <<"/.well-known/nostr.json", "?", "name", "=">>
                               \o RefUser(address)

----------------------------------------------------------------------------
(* C12: the invoice of a successful /generate-invoice response *)

\* the handler of the invoice route has answered after fetching the invoice
InvoiceAnswered == route = "invoice" /\ pc = "done" /\ outcome["invoice"] # Pending

\* C12: every 2xx response of /generate-invoice carries a non-absent invoice,
\* the document decoded from the invoice response, and every failure of the
\* invoice fetch (no response, a status of 300 or more, a body that is not
\* JSON) is answered with a client error, never a 2xx with a null invoice.
C12_InvoiceOn2xx ==
  InvoiceAnswered =>
    /\ resp.status \in 200..299 =>
         /\ Ok(outcome["invoice"])
         /\ ~IsNil(resp.body.Invoice)
         /\ resp.body.Invoice = outcome["invoice"].body.doc
    /\ ~Ok(outcome["invoice"]) => resp.status \in 400..499

----------------------------------------------------------------------------
(* C13: the failure response of /lightning-address-details *)

\* all three fetches failed: each is a transport failure or a status of 300
\* or more
AllThreeFailed ==
  \A e \in Endpoints : outcome[e].kind = "transport" \/ outcome[e].status >= SuccessLimit

\* C13: when all three fetches of /lightning-address-details failed, in every
\* mix of transport failures and statuses of 300 or more, the handler answers
\* with a client error whose body surfaces the failure detail of lnurlp: its
\* error message, and its status where a response exists; it does not fault
\* when the lnurlp response or the lnurlp error is absent.
C13_FailureDetailSurfaced ==
  (DetailsAnswered /\ AllThreeFailed) =>
    /\ resp # Recovered
    /\ resp.status \in 400..499
    /\ "Error" \in DOMAIN resp.body
    /\ ~IsNil(resp.body.Error.Message)
    /\ outcome["lnurlp"].kind = "response" =>
         resp.body.Error.Status = outcome["lnurlp"].status

----------------------------------------------------------------------------
(* C14: the join barrier and the goroutines' writes *)

\* the three goroutines were spawned
Spawned == route = "details" /\ \A e \in Endpoints : gpc[e] # "idle"

\* the handler is past wg.Wait()
PastWait == pc \in {"check", "fail", "ok", "done"}

\* C14: the join barrier orders every write of the goroutines before every
\* read of the handler: the handler is never past wg.Wait() while a goroutine
\* has not yet finished writing (the assignment of what GetJSON returned and
\* the copy into responseBody included).
C14_WritesBeforeReads ==
  (Spawned /\ PastWait) => \A e \in Endpoints : gpc[e] = "done"

----------------------------------------------------------------------------
(* C15: the response and the interleaving *)

\* What the handler answers when each goroutine has run to its end before
\* the handler reads anything: every variable holds what its own GetJSON
\* returned, every slot was decided by its own error.
Returned(e) == GetJSON(urls[e], outcome[e])

SequentialBody ==
  LET slot(e) == IF IsNil(Returned(e).err) THEN Returned(e).value ELSE Nil
  IN  [NewLNResponse EXCEPT !.Lnurlp = slot("lnurlp"),
                            !.Keysend = slot("keysend"),
                            !.Nostr = slot("nostr")]

SequentialAnswer ==
  LET l == Returned("lnurlp").response
      all == AllFailedOf(l, Returned("keysend").response, Returned("nostr").response)
  IN  IF all = "panic" THEN Recovered
      ELSE IF all = "false" THEN JSON(StatusOK, HeaderGet(l.Header), SequentialBody)
      ELSE IF variant = "part" THEN JSON(StatusBadRequest, NoHeader, SequentialBody)
      ELSE IF IsNil(l) \/ IsNil(Returned("lnurlp").err) THEN Recovered
      ELSE JSON(StatusBadRequest, NoHeader,
                [SequentialBody EXCEPT !.Error = [Status |-> l.StatusCode,
                                                  Message |-> Returned("lnurlp").err]])

\* C15: for a fixed triple of fetch outcomes the response of
\* /lightning-address-details (status, the three slots, Cache-Control) is the
\* same in every interleaving of the goroutines and the handler: it is the
\* response of the run in which the goroutines finish before the handler reads.
C15_SameInEveryInterleaving ==
  DetailsAnswered => resp = SequentialAnswer

----------------------------------------------------------------------------
(* C16: the variables the goroutines write *)

\* C16: the three goroutines write pairwise disjoint variables (no variable
\* has been assigned by two of them), and no
\* goroutine decides its slot on a variable written by another: the error a
\* goroutine tests is the one its own GetJSON returned.
C16_DisjointWrites ==
  Spawned =>
    /\ \A e, f \in Endpoints : e # f => WrittenBy(e) \cap WrittenBy(f) = {}
    /\ \A e \in Endpoints : gpc[e] = "test" => ErrorValue(e) = Returned(e).err

----------------------------------------------------------------------------
(* C17: no response while a fetch is in flight *)

\* the GET of an endpoint has not returned yet
InFlight(e) == gpc[e] \in {"start", "get"}

\* C17: /lightning-address-details never produces its response, and never
\* gets past wg.Wait(), while any of the three GETs is still in flight: there
\* is no early return, and a request one of whose GETs never returns is never
\* answered.
C17_NoResponseWhileInFlight ==
  (Spawned /\ (PastWait \/ resp # NoResponse)) => \A e \in Endpoints : ~InFlight(e)

\* the handler has answered after all three GETs returned, one goroutine not
\* having stored its results yet
C17_Witness ==
  /\ Spawned /\ pc = "done" /\ resp.status = StatusOK
  /\ \E e \in Endpoints : gpc[e] = "returned"

----------------------------------------------------------------------------
(* C18: GetJSON and statuses of 300 or more *)

\* what GetJSON returned for a fetch has been assigned
Stored(f) ==
  IF route = "invoice" THEN outcome[f] # Pending
  ELSE f \in Endpoints /\ gpc[f] \in {"assigned", "test", "done"}

\* C18: GetJSON classifies every response with a status of 300 or more as a
\* failure, a 300 with a valid JSON body included: the error is not nil, no
\* document is returned, and the response is still returned.
C18_FailureFrom300 ==
  \A f \in Fetches :
    (Stored(f) /\ outcome[f].kind = "response" /\ outcome[f].status >= 300) =>
      /\ ~IsNil(Returned(f).err)
      /\ IsNil(value[f])
      /\ ~IsNil(response[f])

----------------------------------------------------------------------------
(* C19: the body of a response GetJSON received *)

\* C19: once GetJSON has returned, on every path on which http.Get produced
\* a response, the body of that response has been closed.
C19_BodyClosed ==
  \A f \in Fetches :
    (outcome[f] # Pending /\ outcome[f].kind = "response") => bodies[f] = "closed"

----------------------------------------------------------------------------
(* C20: the WaitGroup counter *)

\* C20: the counter of the WaitGroup is set to 3 and decremented exactly once
\* by each goroutine, on every path through GetJSON: it is never below zero
\* and always the number of GETs that have not returned; and under fair
\* scheduling, with all three GETs eventually returning, the handler
\* eventually passes wg.Wait().
C20_CounterAndProgress ==
  /\ [](Spawned => (wg \in 0..3 /\ wg = Cardinality({e \in Endpoints : InFlight(e)})))
  /\ [](~Spawned => wg = 0)
  /\ (Spawned /\ pc = "wait") ~> PastWait

\* the handler has passed wg.Wait() after three decrements, one of them on
\* GetJSON's failure path
C20_Witness ==
  /\ Spawned /\ PastWait /\ wg = 0
  /\ \E e \in Endpoints : GetFailed(outcome[e])

============================================================================
